---- MODULE Spec2Model ----
(***************************************************************************)
(* PortManager of google/appengine/client/services/port_manager.py.       *)
(*                                                                         *)
(* A PortManager holds two dictionaries and the container port:           *)
(*   used_host_ports  host port -> docker port, written by Add while it   *)
(*                    validates (before its range and reservation checks) *)
(*   port_mappings    the source's _port_mappings, host port -> docker    *)
(*                    port, written by Add after its loop and by          *)
(*                    _BuildDockerPublishArgumentString through the dict  *)
(*                    that GetAllMappedPorts hands out                    *)
(*   container_port   set by __init__                                     *)
(*                                                                         *)
(* A Python dict whose iteration order is observable (port_mappings, the  *)
(* port_translations of Add) is a sequence of <<key, value>> pairs in     *)
(* insertion order. used_host_ports is only looked up and stored into, so *)
(* it is a function. A port spec string is the sequence of its ':' parts, *)
(* each part the integer int() yields or a part int() rejects.            *)
(***************************************************************************)
EXTENDS Integers, Sequences, FiniteSets, TLC

VARIABLES used_host_ports, port_mappings, container_port,
          last_op, last_ports, last_outcome, last_result,
          pre_mappings, pre_used, returned_union

vars == <<used_host_ports, port_mappings, container_port,
          last_op, last_ports, last_outcome, last_result,
          pre_mappings, pre_used, returned_union>>

-----------------------------------------------------------------------------
(* Module constants of port_manager.py                                     *)

DEFAULT_SERVING_PORT == 8080

DEFAULT_CONTAINER_PORT == DEFAULT_SERVING_PORT

VM_PORT_FOR_CONTAINER == DEFAULT_SERVING_PORT

RESERVED_HOST_PORTS == {22, 5000, DEFAULT_SERVING_PORT, 10000, 10001}

RESERVED_DOCKER_PORTS == {22, 5000, 10001}

MinPort == 1

MaxPort == 65535

PrivilegedLimit == 1024

-----------------------------------------------------------------------------
(* Python dict, insertion ordered                                          *)

EmptyDict == << >>

Keys(d) == {d[i][1] : i \in DOMAIN d}

DictGet(d, k) == d[CHOOSE i \in DOMAIN d : d[i][1] = k][2]

DictSet(d, k, v) ==
  IF k \in Keys(d)
    THEN [i \in DOMAIN d |-> IF d[i][1] = k THEN <<k, v>> ELSE d[i]]
    ELSE Append(d, <<k, v>>)

RECURSIVE DictUpdate(_, _)
DictUpdate(d, other) ==
  IF other = << >> THEN d
  ELSE DictUpdate(DictSet(d, Head(other)[1], Head(other)[2]), Tail(other))

\* dict equality ignores order: two dicts are equal iff they are the same mapping
AsMap(d) == [k \in Keys(d) |-> DictGet(d, k)]

\* used_host_ports: lookup table without observable order
EmptyTable == [k \in {} |-> 0]

\* Mutant of TableSet: the store of line 112 is missing
TableSetNothing(t, k, v) == t

TableSet(t, k, v) == [x \in (DOMAIN t) \cup {k} |-> IF x = k THEN v ELSE t[x]]

-----------------------------------------------------------------------------
(* Port specs: the parts of port.split(':'), each an int() result          *)

Num(n) == [num |-> TRUE, val |-> n]

NotANumber == [num |-> FALSE, val |-> 0]

Bare(p) == <<Num(p)>>

Pair(h, c) == <<Num(h), Num(c)>>

\* int() raises ValueError on a part, or the tuple unpacking of line 101
\* gets more than two parts
ParseRaisesValueError(port) ==
  \/ Len(port) > 2
  \/ \E i \in DOMAIN port : ~port[i].num

HostOf(port) == port[1].val

\* Mutant of DockerOf: the part after ':' is ignored
DockerOfFirstPart(port) == port[1].val

DockerOf(port) == IF Len(port) = 1 THEN port[1].val ELSE port[2].val

-----------------------------------------------------------------------------
(* The checks of Add, in the order of the source                           *)

\* Mutants of Conflicts: the check is missing; the comparison is inverted;
\* any reuse of a host port is a conflict
ConflictsNever(used, host_port, docker_port) == FALSE

ConflictsOnAnyReuse(used, host_port, docker_port) == host_port \in DOMAIN used

ConflictsInverted(used, host_port, docker_port) ==
  host_port \in DOMAIN used /\ used[host_port] = docker_port

Conflicts(used, host_port, docker_port) ==
  host_port \in DOMAIN used /\ used[host_port] # docker_port

OutOfRange(host_port, docker_port) ==
  \/ host_port < MinPort \/ host_port > MaxPort
  \/ docker_port < MinPort \/ docker_port > MaxPort

Privileged(docker_port) == docker_port < PrivilegedLimit

ReservedDocker(docker_port) == docker_port \in RESERVED_DOCKER_PORTS

ReservedHost(host_port) == host_port \in RESERVED_HOST_PORTS

\* One pass of the for loop of Add from spec i on. The result is how the loop
\* ends ("ok", or the error raised) with used_host_ports and
\* port_translations as they are at that point.
RECURSIVE AddLoop(_, _, _, _)
AddLoop(ports, i, used, translations) ==
  IF i > Len(ports)
    THEN [outcome |-> "ok", used |-> used, translations |-> translations]
  ELSE
    LET port == ports[i] IN
    IF ParseRaisesValueError(port)
      THEN [outcome |-> "IllegalPortConfigurationError", used |-> used,
            translations |-> translations]
    ELSE
      LET host_port == HostOf(port)
          docker_port == DockerOf(port)
          translations2 == DictSet(translations, host_port, docker_port)
          used2 == TableSet(used, host_port, docker_port)
      IN
      IF Conflicts(used, host_port, docker_port)
        THEN [outcome |-> "InconsistentPortConfigurationError", used |-> used,
              translations |-> translations2]
      ELSE IF \/ OutOfRange(host_port, docker_port)
              \/ Privileged(docker_port)
              \/ ReservedDocker(docker_port)
              \/ ReservedHost(host_port)
        THEN [outcome |-> "IllegalPortConfigurationError", used |-> used2,
              translations |-> translations2]
      ELSE AddLoop(ports, i + 1, used2, translations2)

\* Mutant of Commit: the translations are stored whether or not the loop raised
CommitAlways(mappings, run) == DictUpdate(mappings, run.translations)

\* Mutant of Commit: the translations replace the mappings
CommitReplace(mappings, run) ==
  IF run.outcome = "ok" THEN run.translations ELSE mappings

\* Line 136: reached only when the loop raised nothing
Commit(mappings, run) ==
  IF run.outcome = "ok" THEN DictUpdate(mappings, run.translations)
  ELSE mappings

-----------------------------------------------------------------------------
(* Inputs                                                                  *)

MaxBatch == 2

\* __init__ takes any container port: the default, a legal one, a privileged
\* one, one out of range
ContainerPorts == {DEFAULT_CONTAINER_PORT, 9000, 80, 0}

PortSpecs ==
  { Pair(8000, 8000), Pair(8000, 9000), Bare(9000), Pair(9000, 80),
    Pair(22, 22), Pair(8080, 9000), Pair(9000, 10001),
    Pair(8000, 65536), <<NotANumber>>, <<Num(8000), Num(9000), Num(9000)>> }

RECURSIVE SeqsUpTo(_, _)
SeqsUpTo(S, n) ==
  IF n = 0 THEN {<< >>}
  ELSE LET shorter == SeqsUpTo(S, n - 1) IN
       shorter \cup {Append(s, x) : s \in {t \in shorter : Len(t) = n - 1}, x \in S}

Batches == SeqsUpTo(PortSpecs, MaxBatch)

\* The forwarded_ports of CreatePortManager: None, a list of spec strings, or
\* one string. A string is given by its comma-separated fields; the empty
\* string has none.
NonePorts == [form |-> "None", fields |-> << >>]

ListPorts(items) == [form |-> "list", fields |-> items]

StrPorts(items) == [form |-> "str", fields |-> items]

ForwardedPorts ==
  {NonePorts} \cup {ListPorts(b) : b \in Batches} \cup {StrPorts(b) : b \in Batches}

-----------------------------------------------------------------------------
(* State machine                                                           *)
(*                                                                         *)
(* One caller drives one PortManager, one call at a time (the module has   *)
(* no locking and is used sequentially). last_op .. pre_used record the    *)
(* call that has just returned or raised: its name, its argument, how it   *)
(* ended, the value it returned, and the two dictionaries as they were     *)
(* when it was entered. The caller drops that record before its next call. *)
(* returned_union is the union, as a set of <<host, docker>> pairs, of the *)
(* dictionaries that the calls of Add have returned so far.                *)

NoCall == "none"

NoResult == << >>

Init ==
  /\ used_host_ports = EmptyTable
  /\ port_mappings = EmptyDict
  /\ container_port \in ContainerPorts
  /\ last_op = NoCall
  /\ last_ports = << >>
  /\ last_outcome = "ok"
  /\ last_result = NoResult
  /\ pre_mappings = EmptyDict
  /\ pre_used = EmptyTable
  /\ returned_union = {}

Add(ports) ==
  LET run == AddLoop(ports, 1, used_host_ports, EmptyDict) IN
  /\ last_op = NoCall
  /\ used_host_ports' = run.used
  /\ port_mappings' = Commit(port_mappings, run)
  /\ last_op' = "Add"
  /\ last_ports' = ports
  /\ last_outcome' = run.outcome
  /\ last_result' = IF run.outcome = "ok" THEN run.translations ELSE NoResult
  /\ pre_mappings' = port_mappings
  /\ pre_used' = used_host_ports
  /\ returned_union' =
       IF run.outcome = "ok"
         THEN returned_union \cup
                {run.translations[i] : i \in DOMAIN run.translations}
         ELSE returned_union
  /\ UNCHANGED container_port

\* Line 63: Python truth of forwarded_ports
Truthy(forwarded_ports) ==
  forwarded_ports.form # "None" /\ forwarded_ports.fields # << >>

\* Mutant of PortsList: forwarded_ports is handed to Add as it is
PortsListAsGiven(forwarded_ports) == forwarded_ports

\* Line 63: ports_list
PortsList(forwarded_ports) ==
  IF Truthy(forwarded_ports) THEN forwarded_ports ELSE ListPorts(<< >>)

\* Lines 94-96: a string is split at its commas; ''.split(',') is [''], one
\* field that int() rejects
SplitCsv(ports) ==
  IF ports.fields = << >> THEN << <<NotANumber>> >> ELSE ports.fields

\* Lines 94-134 for an argument of any form: iterating over None raises
\* TypeError before anything is stored
AddRun(ports, used) ==
  IF ports.form = "None"
    THEN [outcome |-> "TypeError", used |-> used, translations |-> EmptyDict]
  ELSE IF ports.form = "str"
    THEN AddLoop(SplitCsv(ports), 1, used, EmptyDict)
  ELSE AddLoop(ports.fields, 1, used, EmptyDict)

\* The PortManager object as a value
ManagerValue(used, mappings, cport) ==
  [used_host_ports |-> used, port_mappings |-> mappings, container_port |-> cport]

\* Lines 63-66, on the PortManager that line 62 has just constructed with
\* container_port: the manager is returned unless Add raises
CreatePortManager(forwarded_ports) ==
  LET run == AddRun(PortsList(forwarded_ports), used_host_ports) IN
  /\ last_op = NoCall
  /\ used_host_ports = EmptyTable
  /\ port_mappings = EmptyDict
  /\ returned_union = {}
  /\ used_host_ports' = run.used
  /\ port_mappings' = Commit(port_mappings, run)
  /\ last_op' = "CreatePortManager"
  /\ last_ports' = forwarded_ports
  /\ last_outcome' = run.outcome
  /\ last_result' =
       IF run.outcome = "ok"
         THEN ManagerValue(run.used, Commit(port_mappings, run), container_port)
         ELSE NoResult
  /\ pre_mappings' = port_mappings
  /\ pre_used' = used_host_ports
  /\ returned_union' =
       IF run.outcome = "ok"
         THEN {run.translations[i] : i \in DOMAIN run.translations}
         ELSE returned_union
  /\ UNCHANGED container_port

\* Lines 145-148: a new empty dict when there are no mappings, else the
\* _port_mappings object itself
ReturnsInternalDict(mappings) == mappings # EmptyDict

GetAllMappedPortsValue(mappings) ==
  IF mappings = EmptyDict THEN EmptyDict ELSE mappings

GetAllMappedPorts ==
  /\ last_op = NoCall
  /\ last_op' = "GetAllMappedPorts"
  /\ last_ports' = << >>
  /\ last_outcome' = "ok"
  /\ last_result' = GetAllMappedPortsValue(port_mappings)
  /\ pre_mappings' = port_mappings
  /\ pre_used' = used_host_ports
  /\ UNCHANGED <<used_host_ports, port_mappings, container_port, returned_union>>

\* Mutant of PublishPortMap: the store of line 159 is missing
PublishPortMapNoServing(mappings, cport) == GetAllMappedPortsValue(mappings)

\* Lines 157-159: port_map after the store of the serving port
PublishPortMap(mappings, cport) ==
  DictSet(GetAllMappedPortsValue(mappings), VM_PORT_FOR_CONTAINER, cport)

\* Mutant of MappingsAfterPublish: the render call leaves only the serving
\* port in _port_mappings
MappingsReplacedAfterPublish(mappings, cport) ==
  IF mappings # EmptyDict THEN <<<<VM_PORT_FOR_CONTAINER, cport>>>> ELSE mappings

\* Lines 157-159: the store goes into _port_mappings itself when
\* GetAllMappedPorts returned it
MappingsAfterPublish(mappings, cport) ==
  IF ReturnsInternalDict(mappings) THEN PublishPortMap(mappings, cport)
  ELSE mappings

\* Lines 160-163: one '--publish=k:v ' token per item, in dict order
PublishString(port_map) ==
  [i \in DOMAIN port_map |-> [publish |-> port_map[i][1], to |-> port_map[i][2]]]

BuildDockerPublishArgumentString ==
  /\ last_op = NoCall
  /\ port_mappings' = MappingsAfterPublish(port_mappings, container_port)
  /\ last_op' = "_BuildDockerPublishArgumentString"
  /\ last_ports' = << >>
  /\ last_outcome' = "ok"
  /\ last_result' = PublishString(PublishPortMap(port_mappings, container_port))
  /\ pre_mappings' = port_mappings
  /\ pre_used' = used_host_ports
  /\ UNCHANGED <<used_host_ports, container_port, returned_union>>

\* Mutant of ReplicaPoolParameters: the item carries the initial '' of line 160
ReplicaPoolParametersEmptyValue(publish_ports) ==
  [template |-> [vmParams |-> [metadata |-> [items |->
     << [key |-> "gae_publish_ports", value |-> << >>] >> ]]]]

ReplicaPoolParameters(publish_ports) ==
  [template |-> [vmParams |-> [metadata |-> [items |->
     << [key |-> "gae_publish_ports", value |-> publish_ports] >> ]]]]

GetReplicaPoolParameters ==
  /\ last_op = NoCall
  /\ port_mappings' = MappingsAfterPublish(port_mappings, container_port)
  /\ last_op' = "GetReplicaPoolParameters"
  /\ last_ports' = << >>
  /\ last_outcome' = "ok"
  /\ last_result' =
       ReplicaPoolParameters(
         PublishString(PublishPortMap(port_mappings, container_port)))
  /\ pre_mappings' = port_mappings
  /\ pre_used' = used_host_ports
  /\ UNCHANGED <<used_host_ports, container_port, returned_union>>

\* The caller is done with the value or exception of its last call (as
\* CreatePortManager is with the dictionary Add returns); the PortManager
\* is untouched. When CreatePortManager raised, the caller has no manager to
\* go on with.
DropResult ==
  /\ last_op # NoCall
  /\ ~(last_op = "CreatePortManager" /\ last_outcome # "ok")
  /\ last_op' = NoCall
  /\ last_ports' = << >>
  /\ last_outcome' = "ok"
  /\ last_result' = NoResult
  /\ pre_mappings' = EmptyDict
  /\ pre_used' = EmptyTable
  /\ UNCHANGED <<used_host_ports, port_mappings, container_port, returned_union>>

\* Every call starts from a caller that has no call record at hand
Next ==
  \/ /\ last_op = NoCall /\ port_mappings = EmptyDict
     /\ \E forwarded_ports \in ForwardedPorts : CreatePortManager(forwarded_ports)
  \/ /\ last_op = NoCall
     /\ \E ports \in Batches : Add(ports)
  \/ GetAllMappedPorts
  \/ BuildDockerPublishArgumentString
  \/ GetReplicaPoolParameters
  \/ DropResult

Spec == Init /\ [][Next]_vars

-----------------------------------------------------------------------------
(* Terms of the properties, stated on port numbers and on the mapping      *)
(* that GetAllMappedPorts returns, independently of the checks above       *)

IllegalError == "IllegalPortConfigurationError"

InconsistentError == "InconsistentPortConfigurationError"

RenderOps == {"_BuildDockerPublishArgumentString", "GetReplicaPoolParameters"}

ReadOps == RenderOps \cup {"GetAllMappedPorts"}

\* The mapping GetAllMappedPorts returns now / returned when the last call
\* was entered
Mapped == AsMap(GetAllMappedPortsValue(port_mappings))

MappedBefore == AsMap(GetAllMappedPortsValue(pre_mappings))

Parses(port) == Len(port) \in {1, 2} /\ \A i \in DOMAIN port : port[i].num

InRange(n) == 1 <= n /\ n <= 65535

LegalSpec(port) ==
  /\ Parses(port)
  /\ InRange(HostOf(port)) /\ InRange(DockerOf(port))
  /\ DockerOf(port) >= 1024
  /\ DockerOf(port) \notin {22, 5000, 10001}
  /\ HostOf(port) \notin {22, 5000, 8080, 10000, 10001}

\* spec i asks for a host port that the mapping m, or an earlier spec of the
\* batch, forwards to another container port
ConflictsWithMapping(ports, i, m) ==
  /\ Parses(ports[i])
  /\ HostOf(ports[i]) \in DOMAIN m
  /\ m[HostOf(ports[i])] # DockerOf(ports[i])

ConflictsInBatch(ports, i) ==
  /\ Parses(ports[i])
  /\ \E j \in 1..(i - 1) :
       /\ Parses(ports[j])
       /\ HostOf(ports[j]) = HostOf(ports[i])
       /\ DockerOf(ports[j]) # DockerOf(ports[i])

RejectedSpec(ports, i, m) ==
  \/ ~LegalSpec(ports[i])
  \/ ConflictsWithMapping(ports, i, m)
  \/ ConflictsInBatch(ports, i)

\* The entries of m that an accepted batch can have committed: the entry for
\* VM_PORT_FOR_CONTAINER, if any, is the one the render operations store
CommittedByAdd(m) == [h \in (DOMAIN m) \ {VM_PORT_FOR_CONTAINER} |-> m[h]]

-----------------------------------------------------------------------------
(* C1. Full-batch atomicity of the committed mapping: when Add is given a  *)
(* batch with at least one spec that is illegal or that conflicts with the *)
(* committed mapping or with an earlier spec of the batch, it raises, and  *)
(* the mapping GetAllMappedPorts returns is the one from before the call,  *)
(* also when valid specs precede the rejected one.                         *)
C1_BatchAtomicity ==
  (/\ last_op = "Add"
   /\ \E i \in DOMAIN last_ports : RejectedSpec(last_ports, i, MappedBefore))
  => (last_outcome # "ok" /\ Mapped = MappedBefore)

\* The batch ["8000:8000", "22:22"] raised on a manager that already had
\* mappings, and 8000 -> 8000 was not committed
C1_Witness ==
  /\ last_op = "Add"
  /\ last_ports = <<Pair(8000, 8000), Pair(22, 22)>>
  /\ last_outcome # "ok"
  /\ MappedBefore # EmptyTable
  /\ 8000 \notin DOMAIN Mapped

(* C2. A rejected batch has no effect on later calls: a batch whose specs  *)
(* are all legal and whose host ports conflict neither with the committed  *)
(* mapping nor with each other is accepted, whatever batches were rejected *)
(* before (after ["8000:8000", "22:22"] is rejected, "8000:9000" is        *)
(* accepted).                                                              *)
C2_RejectedBatchHasNoEffect ==
  (/\ last_op = "Add"
   /\ \A i \in DOMAIN last_ports : ~RejectedSpec(last_ports, i, MappedBefore))
  => last_outcome = "ok"

\* spec i of the batch asks for a host port h that is mapped to another
\* container port, by an accepted batch in the mapping m or by an earlier
\* spec of the batch
ConflictingSpec(ports, i, m) ==
  \/ ConflictsWithMapping(ports, i, CommittedByAdd(m))
  \/ ConflictsInBatch(ports, i)

\* the earlier spec that maps h is itself a legal one
ConflictsWithLegalSpec(ports, i) ==
  /\ Parses(ports[i])
  /\ \E j \in 1..(i - 1) :
       /\ LegalSpec(ports[j])
       /\ HostOf(ports[j]) = HostOf(ports[i])
       /\ DockerOf(ports[j]) # DockerOf(ports[i])

(* C3, as stated. Conflict detection: if host port h is already mapped to  *)
(* c1, in the committed mapping from an accepted batch or by an earlier    *)
(* spec of the same batch, a spec "h:c2" with c2 # c1 makes Add raise      *)
(* InconsistentPortConfigurationError, nothing of the batch is committed,  *)
(* and a committed h -> c1 is still there afterwards.                      *)
C3_ConflictDetectionAsStated ==
  \A i \in DOMAIN last_ports :
    (/\ last_op = "Add"
     /\ \/ ConflictsWithMapping(last_ports, i, CommittedByAdd(MappedBefore))
        \/ ConflictsWithLegalSpec(last_ports, i))
    => /\ last_outcome = InconsistentError
       /\ Mapped = MappedBefore
       /\ last_result = NoResult

(* C3, amended. Conflict detection: if host port h is already mapped to    *)
(* c1, in the committed mapping from an accepted batch or by an earlier    *)
(* spec of the same batch, a spec "h:c2" with c2 # c1 makes Add raise,     *)
(* nothing of the batch is committed, and a committed h -> c1 is still     *)
(* there afterwards; the error is InconsistentPortConfigurationError when  *)
(* every spec before "h:c2" in the batch is legal, and otherwise the error *)
(* of the first spec that fails (IllegalPortConfigurationError for an      *)
(* illegal one).                                                           *)
C3_ConflictDetection ==
  \A i \in DOMAIN last_ports :
    (/\ last_op = "Add"
     /\ ConflictingSpec(last_ports, i, MappedBefore))
    => /\ last_outcome \in {InconsistentError, IllegalError}
       /\ (\A j \in 1..(i - 1) : LegalSpec(last_ports[j]))
            => last_outcome = InconsistentError
       /\ Mapped = MappedBefore
       /\ last_result = NoResult

\* 8000 -> 8000 was committed, then the batch ["9000", "8000:9000"] raised
\* the conflict and left 8000 -> 8000 and no 9000
C3_Witness ==
  /\ last_op = "Add"
  /\ last_ports = <<Bare(9000), Pair(8000, 9000)>>
  /\ last_outcome = InconsistentError
  /\ 8000 \in DOMAIN MappedBefore /\ MappedBefore[8000] = 8000
  /\ 8000 \in DOMAIN Mapped /\ Mapped[8000] = 8000
  /\ 9000 \notin DOMAIN Mapped

(* C4. No silent overwrite: once GetAllMappedPorts has h -> c, every       *)
(* further call (Add accepted or rejected, GetAllMappedPorts, the render   *)
(* calls) leaves h present and mapped to c.                                *)
C4_NoSilentOverwrite ==
  [][\A h \in DOMAIN Mapped : h \in DOMAIN Mapped' /\ Mapped'[h] = Mapped[h]]_vars

\* An accepted batch came after a render call had stored the serving port
\* beside a committed 8000 -> 8000, and both entries are as they were
C4_Witness ==
  /\ last_op = "Add"
  /\ last_outcome = "ok"
  /\ last_ports = <<Bare(9000)>>
  /\ DOMAIN MappedBefore = {8000, VM_PORT_FOR_CONTAINER}
  /\ \A h \in DOMAIN MappedBefore : Mapped[h] = MappedBefore[h]
  /\ 9000 \in DOMAIN Mapped

(* C5. Reserved host ports never appear in the committed mapping: no key   *)
(* of the mapping GetAllMappedPorts returns is in RESERVED_HOST_PORTS, in  *)
(* any state reached by Add, GetAllMappedPorts and the render calls.       *)
C5_NoReservedHostPort ==
  DOMAIN Mapped \cap {22, 5000, 8080, 10000, 10001} = {}

(* C6. Port validity of the committed mapping: every entry host ->         *)
(* container that GetAllMappedPorts returns has both ports in [1, 65535],  *)
(* container >= 1024 and container not in RESERVED_DOCKER_PORTS, whatever  *)
(* container port the PortManager was constructed with.                    *)
C6_MappedPortsValid ==
  \A h \in DOMAIN Mapped :
    /\ InRange(h) /\ InRange(Mapped[h])
    /\ Mapped[h] >= 1024
    /\ Mapped[h] \notin {22, 5000, 10001}

(* C7. Rendering and querying are read-only: GetAllMappedPorts,            *)
(* _BuildDockerPublishArgumentString and GetReplicaPoolParameters leave    *)
(* the mapping that GetAllMappedPorts returns as it was before the call.   *)
C7_ReadOnly ==
  last_op \in ReadOps => Mapped = MappedBefore

(* C8. Add of a spec whose container port is below 1024, host and          *)
(* container both in [1, 65535], raises IllegalPortConfigurationError and  *)
(* no other error, whatever was submitted before.                          *)
C8_PrivilegedIsIllegal ==
  (/\ last_op = "Add"
   /\ Len(last_ports) = 1
   /\ Parses(last_ports[1])
   /\ InRange(HostOf(last_ports[1])) /\ InRange(DockerOf(last_ports[1]))
   /\ DockerOf(last_ports[1]) < 1024)
  => last_outcome = IllegalError

(* C9. Add of a spec whose host port is 22, 5000 or the serving port, or   *)
(* whose container port is 22, 5000 or 10001, raises                       *)
(* IllegalPortConfigurationError (no other error, not success), whatever   *)
(* was submitted before and whatever container port the PortManager was    *)
(* constructed with. The serving port is read here as the port the         *)
(* manager publishes on, DEFAULT_SERVING_PORT.                             *)
C9_ReservedIsIllegal ==
  (/\ last_op = "Add"
   /\ Len(last_ports) = 1
   /\ Parses(last_ports[1])
   /\ \/ HostOf(last_ports[1]) \in {22, 5000, 8080}
      \/ DockerOf(last_ports[1]) \in {22, 5000, 10001})
  => last_outcome = IllegalError

(* C10. A legal spec on a fresh PortManager: Add of "h:c" (h, c in         *)
(* [1, 65535], c >= 1024, c not reserved for docker, h not reserved for    *)
(* the host) returns {h: c} and GetAllMappedPorts is then {h: c}; Add of   *)
(* the bare port "p" returns {p: p} and GetAllMappedPorts is then {p: p}.  *)
C10_LegalSpecOnFreshManager ==
  (/\ last_op = "Add"
   /\ pre_used = EmptyTable /\ pre_mappings = EmptyDict
   /\ Len(last_ports) = 1
   /\ LegalSpec(last_ports[1]))
  => LET h == last_ports[1][1].val
         c == last_ports[1][Len(last_ports[1])].val
     IN /\ last_outcome = "ok"
        /\ AsMap(last_result) = (h :> c)
        /\ Mapped = (h :> c)

\* "8000:9000" was added to a manager with nothing recorded
C10_Witness ==
  /\ last_op = "Add"
  /\ pre_used = EmptyTable /\ pre_mappings = EmptyDict
  /\ last_ports = <<Pair(8000, 9000)>>
  /\ last_outcome = "ok"
  /\ Mapped = (8000 :> 9000)

(* C11. Idempotent re-add: where Add of a legal spec "h:c" succeeds,       *)
(* adding "h:c" twice in one batch succeeds with the same result, and      *)
(* adding it again in a later batch succeeds and leaves the mapping that   *)
(* GetAllMappedPorts returns as it was.                                    *)
C11_IdempotentReAdd ==
  /\ \* a later batch: h -> c is there from an accepted batch
     (/\ last_op = "Add"
      /\ Len(last_ports) = 1
      /\ LegalSpec(last_ports[1])
      /\ HostOf(last_ports[1]) \in DOMAIN CommittedByAdd(MappedBefore)
      /\ MappedBefore[HostOf(last_ports[1])] = DockerOf(last_ports[1]))
     => (last_outcome = "ok" /\ Mapped = MappedBefore)
  /\ \* the same batch: ["h:c", "h:c"] where ["h:c"] is accepted
     (/\ last_op = "Add"
      /\ Len(last_ports) = 2
      /\ last_ports[1] = last_ports[2]
      /\ LegalSpec(last_ports[1])
      /\ AddLoop(<<last_ports[1]>>, 1, pre_used, EmptyDict).outcome = "ok")
     => /\ last_outcome = "ok"
        /\ Mapped = AsMap(Commit(pre_mappings,
                      AddLoop(<<last_ports[1]>>, 1, pre_used, EmptyDict)))
        /\ AsMap(last_result)
             = (HostOf(last_ports[1]) :> DockerOf(last_ports[1]))

\* "8000:9000" was added again, in a batch of its own, to a manager that had
\* 8000 -> 9000 and 9000 -> 9000
C11_Witness ==
  /\ last_op = "Add"
  /\ last_ports = <<Pair(8000, 9000)>>
  /\ last_outcome = "ok"
  /\ MappedBefore = (8000 :> 9000) @@ (9000 :> 9000)
  /\ Mapped = MappedBefore

(* C12. Rendered pairs: the host:container pairs that                      *)
(* _BuildDockerPublishArgumentString renders are the committed mapping     *)
(* with the entry for VM_PORT_FOR_CONTAINER replaced by, or extended with, *)
(* VM_PORT_FOR_CONTAINER -> container_port: one pair for that host port,   *)
(* every other committed mapping exactly once; with no additions the       *)
(* output is that one pair.                                                *)
RenderedPairs(str) == {<<str[i].publish, str[i].to>> : i \in DOMAIN str}

ExpectedPairs(m, cport) ==
  {<<h, m[h]>> : h \in (DOMAIN m) \ {VM_PORT_FOR_CONTAINER}}
    \cup {<<VM_PORT_FOR_CONTAINER, cport>>}

C12_RenderedPairs ==
  last_op = "_BuildDockerPublishArgumentString"
  => /\ RenderedPairs(last_result) = ExpectedPairs(MappedBefore, container_port)
     /\ Len(last_result) = Cardinality(ExpectedPairs(MappedBefore, container_port))
     /\ \A i, j \in DOMAIN last_result :
          last_result[i].publish = last_result[j].publish => i = j
     /\ MappedBefore = EmptyTable
          => last_result = << [publish |-> VM_PORT_FOR_CONTAINER,
                               to |-> container_port] >>

\* The string was built for a manager with two committed mappings
C12_Witness ==
  /\ last_op = "_BuildDockerPublishArgumentString"
  /\ (DOMAIN MappedBefore) \ {VM_PORT_FOR_CONTAINER} = {8000, 9000}
  /\ Len(last_result) = 3
  /\ container_port # VM_PORT_FOR_CONTAINER

(* C13. GetReplicaPoolParameters returns a structure whose template ->     *)
(* vmParams -> metadata -> items list has exactly one item, with key       *)
(* 'gae_publish_ports' and with the string of                              *)
(* _BuildDockerPublishArgumentString as its value: the string for the      *)
(* state the call was made in, which is also the string the next call of   *)
(* _BuildDockerPublishArgumentString returns.                              *)
C13_ReplicaPoolParameters ==
  last_op = "GetReplicaPoolParameters"
  => LET items == last_result.template.vmParams.metadata.items IN
     /\ Len(items) = 1
     /\ items[1].key = "gae_publish_ports"
     /\ items[1].value = PublishString(PublishPortMap(pre_mappings, container_port))
     /\ items[1].value = PublishString(PublishPortMap(port_mappings, container_port))
     /\ RenderedPairs(items[1].value) = ExpectedPairs(MappedBefore, container_port)

\* The parameters were built for a manager with a committed mapping
C13_Witness ==
  /\ last_op = "GetReplicaPoolParameters"
  /\ 8000 \in DOMAIN MappedBefore
  /\ Len(last_result.template.vmParams.metadata.items[1].value) = 2

(* C16. Rendering is repeatable: after a call of                           *)
(* _BuildDockerPublishArgumentString or GetReplicaPoolParameters, the next *)
(* such call renders the same set of host:container pairs, and every       *)
(* batch given to Add ends as it would have ended before the render call   *)
(* (accepted, illegal or conflict).                                        *)
RenderedBy(op, result) ==
  IF op = "GetReplicaPoolParameters"
    THEN RenderedPairs(result.template.vmParams.metadata.items[1].value)
    ELSE RenderedPairs(result)

C16_RenderRepeatable ==
  last_op \in RenderOps
  => /\ RenderedPairs(PublishString(PublishPortMap(port_mappings, container_port)))
          = RenderedBy(last_op, last_result)
     /\ \A ports \in Batches :
          AddLoop(ports, 1, used_host_ports, EmptyDict).outcome
            = AddLoop(ports, 1, pre_used, EmptyDict).outcome

\* A render call returned for a manager that has a committed mapping and a
\* host port left behind by a rejected batch
C16_Witness ==
  /\ last_op \in RenderOps
  /\ 9000 \in DOMAIN MappedBefore
  /\ 8000 \in DOMAIN used_host_ports /\ 8000 \notin DOMAIN Mapped

(* C18. Consistency of the two tables: every entry h -> c of               *)
(* _port_mappings that Add committed is in used_host_ports with the same   *)
(* value, and the value used_host_ports has for a host port never changes  *)
(* once it is set.                                                         *)
TablesConsistent ==
  \A h \in DOMAIN CommittedByAdd(AsMap(port_mappings)) :
    h \in DOMAIN used_host_ports /\ used_host_ports[h] = AsMap(port_mappings)[h]

UsedHostPortsKept ==
  \A h \in DOMAIN used_host_ports :
    h \in DOMAIN used_host_ports' /\ used_host_ports'[h] = used_host_ports[h]

C18_TablesConsistent == [](TablesConsistent) /\ [][UsedHostPortsKept]_vars

\* An accepted batch added a second host port to both tables; a rejected
\* batch had left a third only in used_host_ports
C18_Witness ==
  /\ last_op = "Add"
  /\ last_outcome = "ok"
  /\ DOMAIN CommittedByAdd(Mapped) = {8000, 9000}
  /\ DOMAIN pre_used = {22, 8000}
  /\ DOMAIN used_host_ports = {22, 8000, 9000}

(* C14. An invalid serving port is rejected at construction: no            *)
(* PortManager with a container port outside [1, 65535] exists, and the    *)
(* render operations never emit a port outside that range.                 *)
C14_ContainerPortValidated ==
  /\ InRange(container_port)
  /\ last_op \in RenderOps
       => \A pair \in RenderedBy(last_op, last_result) :
            InRange(pair[1]) /\ InRange(pair[2])

(* C15. Accumulation across calls: after any sequence of Add calls with no *)
(* render call in between, GetAllMappedPorts is the union of the           *)
(* dictionaries that the successful Add calls returned, with nothing from  *)
(* the calls that raised; no accepted entry is lost by a later batch. A    *)
(* render call leaves a trace only in the entry for VM_PORT_FOR_CONTAINER  *)
(* (C5), so the mapping without that entry is the union in every state.    *)
PairsOf(m) == {<<h, m[h]>> : h \in DOMAIN m}

C15_Accumulation ==
  /\ VM_PORT_FOR_CONTAINER \notin DOMAIN Mapped => PairsOf(Mapped) = returned_union
  /\ PairsOf(CommittedByAdd(Mapped)) = returned_union

\* A second accepted batch, after a rejected one, and no render call so far
C15_Witness ==
  /\ last_op = "Add"
  /\ last_outcome = "ok"
  /\ last_ports = <<Bare(9000)>>
  /\ MappedBefore = (8000 :> 8000)
  /\ 22 \in DOMAIN pre_used
  /\ returned_union = {<<8000, 8000>>, <<9000, 9000>>}
  /\ PairsOf(Mapped) = returned_union

(* C17. CreatePortManager(forwarded_ports, container_port) is              *)
(* PortManager(container_port) followed by one Add of forwarded_ports:     *)
(* with empty or absent forwarded_ports it returns, without raising, a     *)
(* manager whose committed mapping is empty; with a batch of legal specs   *)
(* that do not conflict with each other, the manager's committed mapping   *)
(* is that batch's mapping; with any rejected spec it raises and returns   *)
(* no manager.                                                             *)
BatchMapping(items) ==
  [h \in {HostOf(items[i]) : i \in DOMAIN items}
     |-> DockerOf(items[CHOOSE i \in DOMAIN items : HostOf(items[i]) = h])]

EmptyOrAbsent(arg) == arg.form = "None" \/ arg.fields = << >>

C17_CreatePortManager ==
  last_op = "CreatePortManager"
  => LET items == last_ports.fields
         rejected == \E i \in DOMAIN items : RejectedSpec(items, i, EmptyTable)
     IN
     /\ EmptyOrAbsent(last_ports)
          => /\ last_outcome = "ok"
             /\ last_result # NoResult
             /\ Mapped = EmptyTable
     /\ ~rejected
          => /\ last_outcome = "ok"
             /\ last_result # NoResult
             /\ AsMap(last_result.port_mappings) = BatchMapping(items)
             /\ last_result.container_port = container_port
             /\ Mapped = BatchMapping(items)
     /\ rejected
          => /\ last_outcome \in {IllegalError, InconsistentError}
             /\ last_result = NoResult
     /\ ~EmptyOrAbsent(last_ports)
          => /\ last_outcome = AddLoop(items, 1, EmptyTable, EmptyDict).outcome
             /\ port_mappings
                  = Commit(EmptyDict, AddLoop(items, 1, EmptyTable, EmptyDict))

\* CreatePortManager('8000:9000,9000', cp) returned a manager with the two
\* mappings
C17_Witness ==
  /\ last_op = "CreatePortManager"
  /\ last_ports = StrPorts(<<Pair(8000, 9000), Bare(9000)>>)
  /\ last_outcome = "ok"
  /\ Mapped = (8000 :> 9000) @@ (9000 :> 9000)

====
